---------------------------- MODULE Spec2Model ----------------------------
(***************************************************************************)
(* Model of dnam-clocks/mFSS-clock/scripts/feature_selection_analyses.py:  *)
(* model_corrs (with get_stats and get_tvals), normalized_importance and   *)
(* u_test.                                                                 *)
(*                                                                         *)
(* A float is a pair <<n, d>>: the reduced fraction n/d when d > 0,        *)
(* <<1, 0>> is +inf, <<-1, 0>> is -inf and <<0, 0>> is NaN, with the       *)
(* IEEE-754 results of division that numpy gives (x/0 = inf, 0/0 = NaN,    *)
(* inf/inf = NaN); the sign of zero is not kept.                           *)
(*                                                                         *)
(* scipy's linregress and mannwhitneyu are library routines: a column of   *)
(* a table is held as a small number that stands for its content, and the  *)
(* routine's result is a fixed function of that content.                   *)
(***************************************************************************)
EXTENDS Integers, Sequences, FiniteSets, TLC

VARIABLES
    model,        \* model: rows [CpG, Weight], in the model's listing order
    ref_data,     \* ref_data: column name -> column content
    outcome,      \* model_corrs: "none" (not called), "returned" or the error raised
    weights,      \* model_corrs: the weight list handed to get_tvals
    cg_corrs,     \* model_corrs: rows [CpG, Weight, r, t, R2] of the returned table
    missing,      \* model_corrs: the returned list of missing CpGs
    importances,  \* normalized_importance: whether called, and the returned series
    data1,        \* u_test: column name -> content, first group
    data2,        \* u_test: column name -> content, second group
    u_outcome,    \* u_test: "none", "returned" or the error raised
    stats,        \* u_test: returned U statistics
    p_vals,       \* u_test: returned p-values
    log_p         \* u_test: returned -log10(p)

vars == <<model, ref_data, outcome, weights, cg_corrs, missing, importances,
          data1, data2, u_outcome, stats, p_vals, log_p>>

corr_vars == <<outcome, weights, cg_corrs, missing, importances>>
utest_vars == <<data1, data2, u_outcome, stats, p_vals, log_p>>

---------------------------------------------------------------------------
(* Bounds *)

MaxModelLen == 3
MaxColumn == 2
MaxGroup == 2

(* Identifiers, listed in ascending order of Python's str comparison
   ("I" < "c", "1" < "2"). *)
IdOrder == <<"Intercept", "cg01", "cg02">>

ModelIds == {"Intercept", "cg01", "cg02"}
RefIds == {"cg01", "cg02"}
GroupIds == {"cg01", "cg02"}
ModelWeights == {-3, 0, 2}

---------------------------------------------------------------------------
(* Floats *)

RECURSIVE GCD(_, _)
GCD(a, b) == IF b = 0 THEN a ELSE GCD(b, a % b)

Abs(x) == IF x < 0 THEN -x ELSE x
Sgn(x) == IF x < 0 THEN -1 ELSE IF x = 0 THEN 0 ELSE 1

NaN == <<0, 0>>
IsNaN(a) == a = NaN
IsFinite(a) == a[2] > 0

\* n/d for d # 0, reduced to lowest terms with a positive denominator
Norm(n, d) ==
    LET g == GCD(Abs(n), Abs(d))
    IN  <<(Sgn(d) * n) \div g, Abs(d) \div g>>

Float(i) == <<i, 1>>

\* a / b
FDiv(a, b) ==
    LET n == a[1] * b[2]
        d == a[2] * b[1]
    IN  IF d = 0
        THEN IF n = 0 THEN NaN
             ELSE <<Sgn(a[1]) * (IF b[1] < 0 THEN -1 ELSE 1), 0>>
        ELSE Norm(n, d)

\* a * b
FMul(a, b) ==
    LET n == a[1] * b[1]
        d == a[2] * b[2]
    IN  IF d = 0
        THEN IF n = 0 THEN NaN ELSE <<Sgn(n), 0>>
        ELSE Norm(n, d)

\* abs(a)
FAbs(a) == <<Abs(a[1]), a[2]>>

\* a < b (False when either is NaN)
FLess(a, b) ==
    IF IsNaN(a) \/ IsNaN(b) THEN FALSE
    ELSE IF a[2] = 0 /\ b[2] = 0 THEN a[1] < b[1]
    ELSE IF a[2] = 0 THEN a[1] < 0
    ELSE IF b[2] = 0 THEN b[1] > 0
    ELSE a[1] * b[2] < b[1] * a[2]

FLeq(a, b) == ~IsNaN(a) /\ ~IsNaN(b) /\ ~FLess(b, a)

---------------------------------------------------------------------------
(* Lists and sets *)

Range(s) == {s[i] : i \in 1..Len(s)}

IdRank(id) == CHOOSE i \in 1..Len(IdOrder) : IdOrder[i] = id
StrLess(a, b) == IdRank(a) < IdRank(b)

\* list(S) of a Python set S: some enumeration of its elements
Enumerations(S) ==
    {e \in [1..Cardinality(S) -> S] : \A i, j \in 1..Cardinality(S) : i # j => e[i] # e[j]}

\* insertion of x into an ascending list, after the elements not greater
RECURSIVE Insert(_, _)
Insert(x, s) ==
    IF s = <<>> THEN <<x>>
    ELSE IF StrLess(x, Head(s)) THEN <<x>> \o s
    ELSE <<Head(s)>> \o Insert(x, Tail(s))

RECURSIVE SortedList(_)
SortedList(s) ==
    IF s = <<>> THEN <<>> ELSE Insert(Head(s), SortedList(Tail(s)))

IsAscending(s) == \A i \in 1..(Len(s) - 1) : StrLess(s[i], s[i + 1])

\* model.CpG and model.Weight.tolist()
CpGs(m) == [i \in 1..Len(m) |-> m[i].CpG]
WeightList(m) == [i \in 1..Len(m) |-> Float(m[i].Weight)]


---------------------------------------------------------------------------
(* Inputs *)

Models(W) ==
    UNION {[1..n -> [CpG : ModelIds, Weight : W]] : n \in 0..MaxModelLen}

Tables(ids, maxContent) ==
    UNION {[cols -> 0..maxContent] : cols \in SUBSET ids}

NoTable == [c \in {} |-> 0]

---------------------------------------------------------------------------
(* get_stats *)

\* stats.linregress(meta.age, dataset[column]) for a column of content c:
\* content 0 is a column that age fits exactly (r = 1, stderr = 0), content
\* c > 0 one with r = 1/(c+1) and stderr = c+1.
linregress(c) ==
    IF c = 0 THEN [rvalue |-> Float(1), stderr |-> Float(0)]
    ELSE [rvalue |-> Norm(1, c + 1), stderr |-> Float(c + 1)]

\* dataset: the columns' contents, in the column order of the table
get_stats(dataset) ==
    [rs      |-> [i \in 1..Len(dataset) |-> linregress(dataset[i]).rvalue],
     stderrs |-> [i \in 1..Len(dataset) |-> linregress(dataset[i]).stderr]]

---------------------------------------------------------------------------
(* get_tvals *)

TvalsSwapped(ws, stderrs) ==
    IF Len(ws) > Len(stderrs) THEN [raised |-> "IndexError", tvals |-> <<>>]
    ELSE [raised |-> "",
          tvals  |-> [i \in 1..Len(ws) |-> FDiv(stderrs[i], ws[i])]]

\* raises IndexError when weights is longer than stderrs, else returns the
\* list of weights[i] / stderrs[i]
get_tvals(ws, stderrs) ==
    IF Len(ws) > Len(stderrs) THEN [raised |-> "IndexError", tvals |-> <<>>]
    ELSE [raised |-> "",
          tvals  |-> [i \in 1..Len(ws) |-> FDiv(ws[i], stderrs[i])]]

---------------------------------------------------------------------------
(* model_corrs *)

\* set(ref_data.columns) & set(model.CpG)
Intersection(m, ref) == (DOMAIN ref) \cap Range(CpGs(m))

MissingNotSubtracted(m, intersect) == Range(CpGs(m))

\* set(model.CpG) - set(intersect)
MissingSet(m, intersect) == Range(CpGs(m)) \ Range(intersect)

IntersectNotSorted(intersect) == intersect

\* intersect.sort()
SortIntersect(intersect) == SortedList(intersect)

\* data = model.loc[model.CpG.isin(intersect)]
FilteredRows(m, intersect) ==
    LET In(row) == row.CpG \in Range(intersect)
    IN  SelectSeq(m, In)

TvalsWeightsFiltered(m, intersect) == WeightList(FilteredRows(m, intersect))

\* model.Weight.tolist(), the weight list of lines 125 and 130
TvalsWeights(m, intersect) == WeightList(m)

\* combined = ref_data[intersect]
Combined(ref, intersect) == [i \in 1..Len(intersect) |-> ref[intersect[i]]]

\* pd.DataFrame({...}) and the R2 column: raises ValueError when the four
\* lists differ in length
ResultTable(cpgs, ws, rs, ts) ==
    IF ~(Len(cpgs) = Len(ws) /\ Len(ws) = Len(rs) /\ Len(rs) = Len(ts))
    THEN [raised |-> "ValueError", rows |-> <<>>]
    ELSE [raised |-> "",
          rows   |-> [i \in 1..Len(cpgs) |->
                        [CpG |-> cpgs[i], Weight |-> ws[i], r |-> rs[i],
                         t |-> ts[i], R2 |-> FMul(rs[i], rs[i])]]]

ModelCorrs ==
    \E e1 \in Enumerations(Intersection(model, ref_data)) :
      \E e2 \in Enumerations(MissingSet(model, e1)) :
        LET miss      == SortedList(e2)
            intersect == SortIntersect(e1)
            combined  == Combined(ref_data, intersect)
            st        == get_stats(combined)
            ws        == TvalsWeights(model, intersect)
            imps      == get_tvals(ws, st.stderrs)
            table     == ResultTable(intersect, ws, st.rs, imps.tvals)
        IN  /\ weights' = ws
            /\ IF imps.raised # ""
               THEN /\ outcome' = imps.raised
                    /\ cg_corrs' = <<>>
                    /\ missing' = <<>>
               ELSE IF table.raised # ""
               THEN /\ outcome' = table.raised
                    /\ cg_corrs' = <<>>
                    /\ missing' = <<>>
               ELSE /\ outcome' = "returned"
                    /\ cg_corrs' = table.rows
                    /\ missing' = miss
            /\ UNCHANGED <<model, ref_data, importances>>
            /\ UNCHANGED utest_vars

---------------------------------------------------------------------------
(* normalized_importance *)

\* Series.max(): the largest value, NaN skipped; NaN when nothing is left
SeriesMax(s) ==
    LET vals == {s[i] : i \in {j \in 1..Len(s) : ~IsNaN(s[j])}}
    IN  IF vals = {} THEN NaN
        ELSE CHOOSE v \in vals : \A u \in vals : ~FLess(v, u)

TColumn(table) == [i \in 1..Len(table) |-> table[i].t]

NormalizedBySignedMax(t) ==
    [i \in 1..Len(t) |-> FDiv(FAbs(t[i]), SeriesMax(t))]

\* abs(data.t) / abs(data.t).max()
normalized(t) ==
    LET a == [i \in 1..Len(t) |-> FAbs(t[i])]
    IN  [i \in 1..Len(t) |-> FDiv(a[i], SeriesMax(a))]

NormalizedImportance ==
    /\ outcome = "returned"
    /\ importances' = [called |-> TRUE, values |-> normalized(TColumn(cg_corrs))]
    /\ UNCHANGED <<model, ref_data, outcome, weights, cg_corrs, missing>>
    /\ UNCHANGED utest_vars

---------------------------------------------------------------------------
(* u_test *)

\* mannwhitneyu(x, y) for columns of contents x and y: U is that of
\* one-sample groups (doubled), p is 1 for equal contents, 1/10 for contents
\* one apart and underflows to 0 beyond.
mannwhitneyu(x, y) ==
    [statistic |-> Float(IF x > y THEN 2 ELSE IF x = y THEN 1 ELSE 0),
     pvalue    |-> IF x = y THEN Float(1)
                   ELSE IF Abs(x - y) = 1 THEN Norm(1, 10)
                   ELSE Float(0)]

\* -log10(p) for p = 1/10^k; math.log10(0) raises ValueError
RECURSIVE Log10Den(_)
Log10Den(d) == IF d <= 1 THEN 0 ELSE 1 + Log10Den(d \div 10)

NegLog10(p) ==
    IF p[1] = 0 THEN [raised |-> "ValueError", value |-> NaN]
    ELSE [raised |-> "", value |-> Float(Log10Den(p[2]))]

LoopOverAll(cpgs) == cpgs

\* model.CpG[1:]
Tested(cpgs) == SubSeq(cpgs, 2, Len(cpgs))

\* the loop of lines 252-259 from position k of cgs on
RECURSIVE UTestLoop(_, _, _, _, _)
UTestLoop(cgs, k, d1, d2, acc) ==
    IF k > Len(cgs) THEN acc
    ELSE IF cgs[k] \notin DOMAIN d1 \/ cgs[k] \notin DOMAIN d2
    THEN [outcome |-> "KeyError", stats |-> <<>>, p_vals |-> <<>>, log_p |-> <<>>]
    ELSE LET res == mannwhitneyu(d1[cgs[k]], d2[cgs[k]])
             lg  == NegLog10(res.pvalue)
         IN  IF lg.raised # ""
             THEN [outcome |-> lg.raised, stats |-> <<>>, p_vals |-> <<>>,
                   log_p |-> <<>>]
             ELSE UTestLoop(cgs, k + 1, d1, d2,
                            [outcome |-> "returned",
                             stats   |-> Append(acc.stats, res.statistic),
                             p_vals  |-> Append(acc.p_vals, res.pvalue),
                             log_p   |-> Append(acc.log_p, lg.value)])

u_test(m, d1, d2) ==
    UTestLoop(Tested(CpGs(m)), 1, d1, d2,
              [outcome |-> "returned", stats |-> <<>>, p_vals |-> <<>>,
               log_p |-> <<>>])

UTest ==
    LET res == u_test(model, data1, data2)
    IN  /\ u_outcome' = res.outcome
        /\ stats' = res.stats
        /\ p_vals' = res.p_vals
        /\ log_p' = res.log_p
        /\ UNCHANGED <<model, ref_data, data1, data2>>
        /\ UNCHANGED corr_vars

---------------------------------------------------------------------------
(* Specifications *)

CorrsIdle ==
    /\ outcome = "none"
    /\ weights = <<>>
    /\ cg_corrs = <<>>
    /\ missing = <<>>
    /\ importances = [called |-> FALSE, values |-> <<>>]

UTestIdle ==
    /\ u_outcome = "none"
    /\ stats = <<>>
    /\ p_vals = <<>>
    /\ log_p = <<>>

\* model_corrs and normalized_importance on every model and reference table
Init ==
    /\ model \in Models(ModelWeights)
    /\ ref_data \in Tables(RefIds, MaxColumn)
    /\ data1 = NoTable
    /\ data2 = NoTable
    /\ CorrsIdle
    /\ UTestIdle

Next == ModelCorrs \/ NormalizedImportance

Spec == Init /\ [][Next]_vars

\* u_test on every model and pair of group tables
UTestInit ==
    /\ model \in Models({2})
    /\ ref_data = NoTable
    /\ data1 \in Tables(GroupIds, MaxGroup)
    /\ data2 \in Tables(GroupIds, MaxGroup)
    /\ CorrsIdle
    /\ UTestIdle

UTestNext == UTest

UTestSpec == UTestInit /\ [][UTestNext]_vars

---------------------------------------------------------------------------
(* Claims about model_corrs and normalized_importance, under Spec *)

Inter == Intersection(model, ref_data)
Distinct(s) == \A i, j \in 1..Len(s) : i # j => s[i] # s[j]
CpGColumn == [i \in 1..Len(cg_corrs) |-> cg_corrs[i].CpG]
WeightColumn == [i \in 1..Len(cg_corrs) |-> cg_corrs[i].Weight]
\* the weight the model lists for feature id (ids distinct)
WeightOf(id) == Float(model[CHOOSE k \in 1..Len(model) : model[k].CpG = id].Weight)
StderrOf(id) == linregress(ref_data[id]).stderr

\* C1 (as stated): every call of model_corrs returns a Result Table with as
\* many rows as the model's feature identifiers have in common with the
\* reference table's columns, also when a model feature is absent from the
\* reference table.
C1_RowCountIsIntersection ==
    outcome # "none" =>
        outcome = "returned" /\ Len(cg_corrs) = Cardinality(Inter)

\* C2 (as stated): with a non-empty model and an empty intersection,
\* model_corrs does not fail: it returns an empty Result Table and the
\* Missing-Feature List (the model's feature identifiers).
C2_EmptyIntersectionReturns ==
    (outcome # "none" /\ model # <<>> /\ Inter = {}) =>
        /\ outcome = "returned"
        /\ cg_corrs = <<>>
        /\ Range(missing) = Range(CpGs(model))

\* C3 (as stated): for a model whose first entry is the intercept and whose
\* other feature identifiers are all columns of the reference table,
\* model_corrs returns a Result Table with one row per non-intercept feature
\* and an empty Missing-Feature List.
C3_InterceptModelReturns ==
    (/\ outcome # "none"
     /\ Len(model) >= 1
     /\ model[1].CpG = "Intercept"
     /\ \A i \in 2..Len(model) : model[i].CpG \in DOMAIN ref_data
     /\ Distinct(CpGs(model))) =>
        /\ outcome = "returned"
        /\ Len(cg_corrs) = Len(model) - 1
        /\ CpGColumn = SortedList(Tail(CpGs(model)))
        /\ missing = <<>>

\* C4 (as stated): the weight list handed to get_tvals, and the Weight column
\* of the Result Table, hold only the weights of the model rows whose feature
\* identifier is in the intersection, in the model's filtered order.
C4_OnlyIntersectionWeights ==
    outcome # "none" =>
        LET filtered ==
              LET In(row) == row.CpG \in Inter IN WeightList(SelectSeq(model, In))
        IN  /\ weights = filtered
            /\ outcome = "returned" => WeightColumn = filtered

\* C5: whenever model_corrs returns, the Missing-Feature List and the
\* intersection (the CpG column of the Result Table) are disjoint, together
\* they are the set of the model's feature identifiers, and the
\* Missing-Feature List ascends strictly (sorted, no duplicates).
C5_MissingPartitionsModel ==
    outcome = "returned" =>
        /\ Range(CpGColumn) = Inter
        /\ Range(missing) \cap Range(CpGColumn) = {}
        /\ Range(missing) \cup Range(CpGColumn) = Range(CpGs(model))
        /\ IsAscending(missing)

C5_Witness ==
    /\ outcome = "returned"
    /\ cg_corrs # <<>>
    /\ Cardinality(DOMAIN ref_data) > Len(cg_corrs)

\* C6: in a returned Result Table the CpG column is the ascending
\* intersection and r[i] and the standard error under t[i] are those of
\* CpG[i]; when the model lists its (distinct, all present) identifiers in
\* ascending order, Weight[i] is the model weight of CpG[i] and t[i] is that
\* weight divided by the standard error of CpG[i]; when the listing is not
\* ascending, some row carries an identifier together with the weight the
\* model lists for another feature.
C6_ColumnsFollowSortedIntersection ==
    outcome = "returned" =>
        /\ IsAscending(CpGColumn)
        /\ Range(CpGColumn) = Inter
        /\ \A i \in 1..Len(cg_corrs) :
             /\ cg_corrs[i].r = linregress(ref_data[cg_corrs[i].CpG]).rvalue
             /\ cg_corrs[i].t = FDiv(cg_corrs[i].Weight, StderrOf(cg_corrs[i].CpG))
        /\ (Distinct(CpGs(model)) /\ Range(CpGs(model)) \subseteq DOMAIN ref_data) =>
             IF IsAscending(CpGs(model))
             THEN \A i \in 1..Len(cg_corrs) :
                    /\ cg_corrs[i].Weight = WeightOf(cg_corrs[i].CpG)
                    /\ cg_corrs[i].t =
                         FDiv(WeightOf(cg_corrs[i].CpG), StderrOf(cg_corrs[i].CpG))
             ELSE \E i \in 1..Len(cg_corrs) :
                    /\ cg_corrs[i].CpG # model[i].CpG
                    /\ cg_corrs[i].Weight = Float(model[i].Weight)

C6_Witness ==
    /\ outcome = "returned"
    /\ Len(cg_corrs) = 2
    /\ IsAscending(CpGs(model))
    /\ cg_corrs[1].Weight # cg_corrs[2].Weight
    /\ StderrOf(cg_corrs[1].CpG) # StderrOf(cg_corrs[2].CpG)
    /\ IsFinite(cg_corrs[1].t) /\ IsFinite(cg_corrs[2].t)

\* a returned table of a model that does not list its identifiers in
\* ascending order, a row of which pairs an identifier with the weight of
\* another feature
C6_Misaligned ==
    /\ outcome = "returned"
    /\ ~IsAscending(CpGs(model))
    /\ \E i \in 1..Len(cg_corrs) : cg_corrs[i].Weight # WeightOf(cg_corrs[i].CpG)

\* C8: model_corrs is deterministic: a call on the inputs of an earlier call
\* ends as that call did, with the same Result Table and Missing-Feature
\* List, whatever the order in which the intermediate sets are enumerated.
C8_Deterministic ==
    [][outcome # "none" =>
         /\ outcome' = outcome
         /\ weights' = weights
         /\ cg_corrs' = cg_corrs
         /\ missing' = missing]_vars

C8_Witness ==
    /\ outcome = "returned"
    /\ Cardinality(Enumerations(Inter)) > 1
    /\ cg_corrs[1].Weight # cg_corrs[2].Weight

TCol == TColumn(cg_corrs)
InUnitInterval(v) == FLeq(Float(0), v) /\ FLeq(v, Float(1))
MaximalAbsT(i) == \A j \in 1..Len(TCol) : ~FLess(FAbs(TCol[i]), FAbs(TCol[j]))
NormalizedInRange ==
    /\ Len(importances.values) = Len(TCol)
    /\ \A i \in 1..Len(TCol) :
         /\ InUnitInterval(importances.values[i])
         /\ MaximalAbsT(i) => importances.values[i] = Float(1)

\* C9 (as stated): for a Result Table whose t column has at least one
\* non-zero value, normalized_importance returns a sequence aligned to the
\* rows in which every value lies in [0, 1] and every row of maximal |t| is 1.
C9_NonZeroNormalized ==
    (importances.called /\ \E i \in 1..Len(TCol) : TCol[i] # Float(0)) =>
        NormalizedInRange

\* C9 (amended): for a Result Table whose t column has only finite values,
\* at least one of them non-zero, normalized_importance returns a sequence
\* aligned to the rows in which every value lies in [0, 1] and every row of
\* maximal |t| is 1.
C9_FiniteNonZeroNormalized ==
    (/\ importances.called
     /\ \A i \in 1..Len(TCol) : IsFinite(TCol[i])
     /\ \E i \in 1..Len(TCol) : TCol[i] # Float(0)) =>
        NormalizedInRange

C9_Witness ==
    /\ importances.called
    /\ Len(TCol) = 2
    /\ \A i \in 1..Len(TCol) : IsFinite(TCol[i])
    /\ \E i \in 1..Len(TCol) : TCol[i][1] < 0
    /\ \E i \in 1..Len(TCol) : importances.values[i] = Float(1)
    /\ \E i \in 1..Len(TCol) :
         FLess(Float(0), importances.values[i]) /\ FLess(importances.values[i], Float(1))

---------------------------------------------------------------------------
(* Claims about u_test, under UTestSpec *)

TestResult(k) == mannwhitneyu(data1[model[k + 1].CpG], data2[model[k + 1].CpG])
UTestAligned ==
    \A k \in 1..Len(stats) :
        /\ stats[k] = TestResult(k).statistic
        /\ p_vals[k] = TestResult(k).pvalue
        /\ log_p[k] = NegLog10(TestResult(k).pvalue).value
UTestAbsentFails ==
    (/\ u_outcome # "none"
     /\ \E k \in 2..Len(model) :
          model[k].CpG \notin DOMAIN data1 \/ model[k].CpG \notin DOMAIN data2) =>
        /\ u_outcome \in {"KeyError", "ValueError"}
        /\ stats = <<>> /\ p_vals = <<>> /\ log_p = <<>>

\* C7 (as stated): u_test returns three sequences of length
\* len(model features) - 1 each, whose k-th elements are those of the
\* (k+1)-th entry of the model's feature list; if such a feature is not a
\* column of data1 or of data2 the call fails and returns nothing.
C7_LengthIsModelLessOne ==
    /\ u_outcome = "returned" =>
         /\ Len(stats) = Len(model) - 1
         /\ Len(p_vals) = Len(model) - 1
         /\ Len(log_p) = Len(model) - 1
         /\ UTestAligned
    /\ UTestAbsentFails

\* C7 (amended): u_test returns three sequences of length
\* len(model features) - 1 each for a non-empty model, and empty for an empty
\* model, whose k-th elements are those of the (k+1)-th entry of the model's
\* feature list; if such a feature is not a column of data1 or of data2 the
\* call fails and returns nothing.
C7_LengthIsTestedFeatures ==
    /\ u_outcome = "returned" =>
         LET n == IF model = <<>> THEN 0 ELSE Len(model) - 1
         IN  /\ Len(stats) = n
             /\ Len(p_vals) = n
             /\ Len(log_p) = n
             /\ UTestAligned
    /\ UTestAbsentFails

C7_Witness ==
    /\ u_outcome = "returned"
    /\ Len(stats) = 2
    /\ stats[1] # stats[2]
    /\ log_p[1] # log_p[2]
    /\ model[1].CpG = "Intercept"

============================================================================
